---- MODULE Spec2Model ----
(***************************************************************************)
(* A model of hydrus' data-access layer: the collection pagination of      *)
(* hydrus/data/crud.py (get_collection) with its helpers of                *)
(* hydrus/data/crud_helpers.py, and the triple-graph materialisation of    *)
(* add_prop_name_to_object, the filter of a search (apply_filter), the      *)
(* singleton operations and the modification log.                          *)
(*                                                                         *)
(* Python strings are modelled as sequences of tokens: a token is one      *)
(* character of a query-string value or of a formatted number, or a whole  *)
(* word (a parameter key, the API name, the path) whose spelling no code   *)
(* looks into.  A value that may be None is a sequence: None is <<>> and   *)
(* the integer n is <<n>>.                                                *)
(***************************************************************************)
EXTENDS Integers, Sequences, FiniteSets, TLC

\* ------------------------------------------------------------------ bounds
MaxLen == 3        \* result_length ranges over 0..MaxLen
MaxPageSize == 2   \* the configured page_size ranges over 1..MaxPageSize
MaxParams == 3     \* a request carries at most MaxParams query parameters
MaxTriples == 2    \* the Graph table holds at most MaxTriples rows
MaxRecords == 3    \* the Modification table holds at most MaxRecords rows

\* ------------------------------------------------------- Python primitives
None == <<>>
Some(v) == <<v>>

Digits == <<"0", "1", "2", "3", "4", "5", "6", "7", "8", "9">>

DigitValue(c) == (CHOOSE d \in 1..Len(Digits) : Digits[d] = c) - 1

IsDigit(c) == \E d \in 1..Len(Digits) : Digits[d] = c

\* str(n) of a non-negative integer, as the f-strings format it
RECURSIVE NatToStr(_)
NatToStr(n) ==
    IF n < 10 THEN <<Digits[n + 1]>>
    ELSE NatToStr(n \div 10) \o <<Digits[(n % 10) + 1]>>

IntToStr(n) == IF n < 0 THEN <<"-">> \o NatToStr(-n) ELSE NatToStr(n)

\* str.strip() of the blanks int() ignores around a literal
RECURSIVE StripLeft(_)
StripLeft(s) ==
    IF s # <<>> /\ Head(s) = " " THEN StripLeft(Tail(s)) ELSE s

RECURSIVE StripRight(_)
StripRight(s) ==
    IF s # <<>> /\ s[Len(s)] = " " THEN StripRight(SubSeq(s, 1, Len(s) - 1)) ELSE s

RECURSIVE DigitsToNat(_)
DigitsToNat(s) ==
    IF s = <<>> THEN 0
    ELSE 10 * DigitsToNat(SubSeq(s, 1, Len(s) - 1)) + DigitValue(s[Len(s)])

\* int(s) of a string: blanks stripped, an optional sign, then one digit or
\* more; anything else is a ValueError.
PyInt(s) ==
    LET t == StripRight(StripLeft(s))
        signed == t # <<>> /\ Head(t) \in {"+", "-"}
        body == IF signed THEN Tail(t) ELSE t
    IN  IF body = <<>> \/ \E i \in 1..Len(body) : ~IsDigit(body[i])
        THEN [ok |-> FALSE, val |-> 0]
        ELSE [ok |-> TRUE,
              val |-> IF signed /\ Head(t) = "-" THEN -DigitsToNat(body)
                      ELSE DigitsToNat(body)]

\* a // b and a % b of Python integers, b # 0: the quotient is floored and
\* the remainder takes the sign of the divisor
PyFloorDiv(a, b) == IF b > 0 THEN a \div b ELSE (-a) \div (-b)

PyMod(a, b) == a - b * PyFloorDiv(a, b)

\* range(a, b) as the sequence of its values
PyRange(a, b) == [k \in 1..(IF b > a THEN b - a ELSE 0) |-> a + k - 1]

\* list[i]: a negative index counts from the end, anything outside
\* -len..len-1 is an IndexError
InRange(list, i) == -Len(list) <= i /\ i < Len(list)

PyIndex(list, i) == IF i >= 0 THEN list[i + 1] ELSE list[Len(list) + i + 1]

\* ------------------------------------------- dict of the query parameters
\* search_params is a dict in insertion order: a sequence of <<key, value>>
\* with distinct keys.
Has(sp, k) == \E i \in 1..Len(sp) : sp[i][1] = k

Get(sp, k) == sp[CHOOSE i \in 1..Len(sp) : sp[i][1] = k][2]

\* An exception: its class, the sequence of its arguments and, once it
\* leaves get_collection, the function whose code raised it
NoExc == [kind |-> "none", arg |-> <<>>, at |-> "none"]

Raise(kind, arg) == [kind |-> kind, arg |-> arg, at |-> "none"]

RaisedAt(e, f) == [e EXCEPT !.at = f]

\* ------------------------------------------------------ crud_helpers.py
incompatible_parameters == <<"page", "pageIndex", "offset">>

\* FindIncompatiblePair with the loops reporting the last pair they visit
FindIncompatiblePair_LastPair(sp) ==
    LET n == Len(incompatible_parameters)
        present == {p \in (1..n) \X (1..n) :
                        /\ p[1] < p[2]
                        /\ Has(sp, incompatible_parameters[p[1]])
                        /\ Has(sp, incompatible_parameters[p[2]])}
        final == CHOOSE p \in present : \A q \in present :
                        \/ p[1] > q[1]
                        \/ (p[1] = q[1] /\ p[2] >= q[2])
    IN  IF present = {} THEN None
        ELSE <<incompatible_parameters[final[1]], incompatible_parameters[final[2]]>>

\* The nested loops over incompatible_parameters: the first pair i < j, in
\* the order the loops visit them, with both keys in search_params; None
\* when the loops end without raising.
FindIncompatiblePair(sp) ==
    LET n == Len(incompatible_parameters)
        present == {p \in (1..n) \X (1..n) :
                        /\ p[1] < p[2]
                        /\ Has(sp, incompatible_parameters[p[1]])
                        /\ Has(sp, incompatible_parameters[p[2]])}
        first == CHOOSE p \in present : \A q \in present :
                        \/ p[1] < q[1]
                        \/ (p[1] = q[1] /\ p[2] <= q[2])
    IN  IF present = {} THEN None
        ELSE <<incompatible_parameters[first[1]], incompatible_parameters[first[2]]>>

\* ParseStyle with page = offset // page_size, the + 1 forgotten
ParseStyle_PageFromZero(sp, page_size, result_length) ==
    IF Has(sp, "pageIndex") THEN
        LET r == PyInt(Get(sp, "pageIndex"))
        IN  IF r.ok THEN [exc |-> NoExc, page |-> Some(r.val), offset |-> None]
            ELSE [exc |-> Raise("ValueError", <<>>), page |-> <<>>, offset |-> None]
    ELSE IF Has(sp, "offset") THEN
        LET r == PyInt(Get(sp, "offset"))
        IN  IF ~r.ok
            THEN [exc |-> Raise("ValueError", <<>>), page |-> <<>>, offset |-> None]
            ELSE LET pg == PyFloorDiv(r.val, page_size)
                 IN  IF r.val > result_length
                     THEN [exc |-> Raise("OffsetOutOfRange", IntToStr(r.val)),
                           page |-> Some(pg), offset |-> Some(r.val)]
                     ELSE [exc |-> NoExc, page |-> Some(pg), offset |-> Some(r.val)]
    ELSE
        LET r == IF Has(sp, "page") THEN PyInt(Get(sp, "page"))
                 ELSE [ok |-> TRUE, val |-> 1]
        IN  IF r.ok THEN [exc |-> NoExc, page |-> Some(r.val), offset |-> None]
            ELSE [exc |-> Raise("ValueError", <<>>), page |-> <<>>, offset |-> None]

\* The first half of the try block: the page number and the offset the
\* style parameter gives.  exc is the exception the half ends with; page and
\* offset are the locals as it leaves them, page being <<>> when no
\* assignment has reached it.
ParseStyle(sp, page_size, result_length) ==
    IF Has(sp, "pageIndex") THEN
        LET r == PyInt(Get(sp, "pageIndex"))
        IN  IF r.ok THEN [exc |-> NoExc, page |-> Some(r.val), offset |-> None]
            ELSE [exc |-> Raise("ValueError", <<>>), page |-> <<>>, offset |-> None]
    ELSE IF Has(sp, "offset") THEN
        LET r == PyInt(Get(sp, "offset"))
        IN  IF ~r.ok
            THEN [exc |-> Raise("ValueError", <<>>), page |-> <<>>, offset |-> None]
            ELSE LET pg == PyFloorDiv(r.val, page_size) + 1
                 IN  IF r.val > result_length
                     THEN [exc |-> Raise("OffsetOutOfRange", IntToStr(r.val)),
                           page |-> Some(pg), offset |-> Some(r.val)]
                     ELSE [exc |-> NoExc, page |-> Some(pg), offset |-> Some(r.val)]
    ELSE
        LET r == IF Has(sp, "page") THEN PyInt(Get(sp, "page"))
                 ELSE [ok |-> TRUE, val |-> 1]
        IN  IF r.ok THEN [exc |-> NoExc, page |-> Some(r.val), offset |-> None]
            ELSE [exc |-> Raise("ValueError", <<>>), page |-> <<>>, offset |-> None]

\* The second half of the try block: limit
ParseLimit(sp) ==
    IF Has(sp, "limit") THEN
        LET r == PyInt(Get(sp, "limit"))
        IN  IF r.ok THEN [exc |-> NoExc, limit |-> Some(r.val)]
            ELSE [exc |-> Raise("ValueError", <<>>), limit |-> None]
    ELSE [exc |-> NoExc, limit |-> None]

\* except ValueError: raise PageNotFound(page).  Evaluating the argument
\* reads the local page, which is an UnboundLocalError when no assignment
\* has reached it.
ValueErrorHandler(page) ==
    IF page = <<>> THEN Raise("UnboundLocalError", <<"page">>)
    ELSE Raise("PageNotFound", page)

\* calculate_page_limit_and_offset with offset = page * page_size
calculate_page_limit_and_offset_PageTimesSize(paginate, page_size, page, result_length, offset, limit) ==
    LET size == IF limit # None THEN limit[1] ELSE page_size
    IN  IF paginate
        THEN <<size, IF offset = None THEN page * size ELSE offset[1]>>
        ELSE <<result_length, 0>>

\* calculate_page_limit_and_offset with the page size kept as the limit when
\* pagination is disabled
calculate_page_limit_and_offset_KeepsPageSize(paginate, page_size, page, result_length, offset, limit) ==
    LET size == IF limit # None THEN limit[1] ELSE page_size
    IN  IF paginate
        THEN <<size, IF offset = None THEN (page - 1) * size ELSE offset[1]>>
        ELSE <<size, 0>>

\* Returns <<limit, offset>>; offset and limit are None or an integer
calculate_page_limit_and_offset(paginate, page_size, page, result_length, offset, limit) ==
    LET size == IF limit # None THEN limit[1] ELSE page_size
    IN  IF paginate
        THEN <<size, IF offset = None THEN (page - 1) * size ELSE offset[1]>>
        ELSE <<result_length, 0>>

Failed(e) == [exc |-> e, page |-> 0, page_limit |-> 0, offset |-> 0]

\* Returns page, page_limit and offset, or ends with the exception exc
pre_process_pagination_parameters(sp, paginate, page_size, result_length) ==
    LET pair == FindIncompatiblePair(sp)
        style == ParseStyle(sp, page_size, result_length)
        lim == ParseLimit(sp)
    IN  IF pair # None THEN Failed(Raise("IncompatibleParameters", pair))
        ELSE IF style.exc.kind = "ValueError" THEN Failed(ValueErrorHandler(style.page))
        ELSE IF style.exc.kind # "none" THEN Failed(style.exc)
        ELSE IF lim.exc.kind = "ValueError" THEN Failed(ValueErrorHandler(style.page))
        ELSE LET c == calculate_page_limit_and_offset(paginate, page_size, style.page[1],
                                                      result_length, style.offset, lim.limit)
             IN  [exc |-> NoExc, page |-> style.page[1], page_limit |-> c[1], offset |-> c[2]]

\* recreate_iri skipping limit as it skips the other pagination keys
RECURSIVE recreate_iri_SkipsLimit(_, _, _)
recreate_iri_SkipsLimit(API_NAME, path, sp) ==
    IF sp = <<>> THEN <<"/", API_NAME, "/", path, "?">>
    ELSE LET rest == recreate_iri_SkipsLimit(API_NAME, path, SubSeq(sp, 1, Len(sp) - 1))
             param == sp[Len(sp)][1]
         IN  IF param \in {"page", "pageIndex", "offset", "limit"} THEN rest
             ELSE rest \o <<param, "=">> \o sp[Len(sp)][2] \o <<"&">>

\* f"/{API_NAME}/{path}?" followed by f"{param}={value}&" for every
\* parameter the loop does not skip
RECURSIVE recreate_iri(_, _, _)
recreate_iri(API_NAME, path, sp) ==
    IF sp = <<>> THEN <<"/", API_NAME, "/", path, "?">>
    ELSE LET rest == recreate_iri(API_NAME, path, SubSeq(sp, 1, Len(sp) - 1))
             param == sp[Len(sp)][1]
         IN  IF param = "page" \/ param = "pageIndex" \/ param = "offset" THEN rest
             ELSE rest \o <<param, "=">> \o sp[Len(sp)][2] \o <<"&">>

\* f"{iri}{paginate_param}={n}"
Link(iri, paginate_param, n) == iri \o <<paginate_param, "=">> \o IntToStr(n)

\* OffsetView with hydra:previous added from offset = page_size on
OffsetView_PreviousFromPageSize(paginate_param, result_length, page_size, iri, offset) ==
    ("@id" :> Link(iri, paginate_param, offset))
    @@ ("@type" :> <<"hydra:PartialCollectionView">>)
    @@ ("hydra:first" :> Link(iri, paginate_param, 0))
    @@ ("hydra:last" :> Link(iri, paginate_param, result_length - page_size))
    @@ (IF offset >= page_size
        THEN "hydra:previous" :> Link(iri, paginate_param, offset - page_size)
        ELSE <<>>)
    @@ (IF offset < result_length - page_size
        THEN "hydra:next" :> Link(iri, paginate_param, offset + page_size)
        ELSE <<>>)

\* The hydra:view of attach_hydra_view when paginate_param is offset
OffsetView(paginate_param, result_length, page_size, iri, offset) ==
    ("@id" :> Link(iri, paginate_param, offset))
    @@ ("@type" :> <<"hydra:PartialCollectionView">>)
    @@ ("hydra:first" :> Link(iri, paginate_param, 0))
    @@ ("hydra:last" :> Link(iri, paginate_param, result_length - page_size))
    @@ (IF offset > page_size
        THEN "hydra:previous" :> Link(iri, paginate_param, offset - page_size)
        ELSE <<>>)
    @@ (IF offset < result_length - page_size
        THEN "hydra:next" :> Link(iri, paginate_param, offset + page_size)
        ELSE <<>>)

\* PageView with hydra:next left out on the page before the last one too
PageView_NextStopsEarly(paginate_param, iri, page, last) ==
    ("@id" :> Link(iri, paginate_param, page))
    @@ ("@type" :> <<"hydra:PartialCollectionView">>)
    @@ ("hydra:first" :> Link(iri, paginate_param, 1))
    @@ ("hydra:last" :> Link(iri, paginate_param, last))
    @@ (IF page # 1
        THEN "hydra:previous" :> Link(iri, paginate_param, page - 1)
        ELSE <<>>)
    @@ (IF page < last - 1
        THEN "hydra:next" :> Link(iri, paginate_param, page + 1)
        ELSE <<>>)

\* The hydra:view of attach_hydra_view for page and pageIndex
PageView(paginate_param, iri, page, last) ==
    ("@id" :> Link(iri, paginate_param, page))
    @@ ("@type" :> <<"hydra:PartialCollectionView">>)
    @@ ("hydra:first" :> Link(iri, paginate_param, 1))
    @@ ("hydra:last" :> Link(iri, paginate_param, last))
    @@ (IF page # 1
        THEN "hydra:previous" :> Link(iri, paginate_param, page - 1)
        ELSE <<>>)
    @@ (IF page # last
        THEN "hydra:next" :> Link(iri, paginate_param, page + 1)
        ELSE <<>>)

\* The value of collection_template["hydra:view"]
attach_hydra_view(paginate_param, result_length, page_size, iri, offset, page, last) ==
    IF paginate_param = "offset"
    THEN OffsetView(paginate_param, result_length, page_size, iri, offset)
    ELSE PageView(paginate_param, iri, page, last)

\* ------------------------------------------------------------ the request
\* The arguments of one get_collection call.  API_NAME, type_ and path are
\* the same in every call; path is not None.
API_NAME == "api"
type_ == "Planet"
path == "planets"

ParamKeys == {"page", "pageIndex", "offset", "limit", "name"}

\* The values a query string gives the keys: for page, pageIndex and offset
\* integer literals below, inside and above the pages and offsets of a result
\* set and one string int() rejects; for limit a negative literal as well;
\* for the filter key name one value.
StyleValues == {<<"0">>, <<"1">>, <<"2">>, <<"x">>}

LimitValues == StyleValues \cup {<<"-", "1">>}

ValuesOf(k) ==
    IF k = "name" THEN {<<"M", "a", "r", "s">>}
    ELSE IF k = "limit" THEN LimitValues
    ELSE StyleValues

KeysOf(sp) == {sp[i][1] : i \in 1..Len(sp)}

\* The dicts of exactly n parameters, in every insertion order
RECURSIVE ParamsOfLen(_)
ParamsOfLen(n) ==
    IF n = 0 THEN {<<>>}
    ELSE UNION {UNION {{Append(sp, <<k, v>>) : v \in ValuesOf(k)} :
                            k \in ParamKeys \ KeysOf(sp)} :
                    sp \in ParamsOfLen(n - 1)}

SearchParams == UNION {ParamsOfLen(n) : n \in 0..MaxParams}

\* The filtered instances the storage returns, in its order: the instance at
\* index i (from 0) has the id i + 1.
ResultSets == {[i \in 1..n |-> i] : n \in 0..MaxLen}

VARIABLES
    search_params,       \* argument: the raw query parameters
    paginate,            \* argument: pagination enabled
    page_size,           \* argument: the configured page size
    filtered_instances,  \* get_all_filtered_instances(...)
    pc,                  \* where the call is
    exc,                 \* the exception the call ended with
    page,                \* locals of get_collection
    page_limit,          \*   (the code rebinds page_size to this value)
    offset,
    last,
    collection_template,
    Instance,            \* table Instance: rows [id, type_]
    Terminal,            \* table Terminal: rows [id, value]
    triples,             \* table Graph, in the storage's order
    Modification,        \* table Modification: rows [job_id, method, resource_url]
    graph_call           \* the last call into the graph helpers and its outcome

pagination_vars == <<search_params, paginate, page_size, filtered_instances, pc, exc,
                     page, page_limit, offset, last, collection_template>>

graph_vars == <<Instance, Terminal, triples, Modification, graph_call>>

vars == <<pagination_vars, graph_vars>>

args == <<search_params, paginate, page_size, filtered_instances>>

result_length == Len(filtered_instances)

InitPagination ==
    /\ search_params \in SearchParams
    /\ paginate \in BOOLEAN
    /\ page_size \in 1..MaxPageSize
    /\ filtered_instances \in ResultSets
    /\ pc = "start"
    /\ exc = NoExc
    /\ page = 0
    /\ page_limit = 0
    /\ offset = 0
    /\ last = 0
    /\ collection_template =
            ("@id" :> <<"/", API_NAME, "/", path, "/">>)
            @@ ("@context" :> None)
            @@ ("@type" :> <<type_, "Collection">>)
            @@ ("members" :> <<>>)

\* -------------------------------------------------------------- crud.py
\* object_template of the instance with the given id
ObjectTemplate(id) ==
    ("@id" :> <<"/", API_NAME, "/", path, "/">> \o IntToStr(id))
    @@ ("@type" :> <<type_>>)

\* get_collection up to the return of pre_process_pagination_parameters;
\* its exceptions are re-raised unchanged, any other propagates as well.
PreProcess ==
    /\ pc = "start"
    /\ LET r == pre_process_pagination_parameters(search_params, paginate,
                                                  page_size, result_length)
       IN  /\ exc' = IF r.exc.kind = "none" THEN NoExc
                     ELSE RaisedAt(r.exc, "pre_process_pagination_parameters")
           /\ page' = r.page
           /\ page_limit' = r.page_limit
           /\ offset' = r.offset
           /\ pc' = IF r.exc.kind = "none" THEN "pre_processed" ELSE "raised"
    /\ UNCHANGED <<args, last, collection_template, graph_vars>>

\* current_page_size and the loop that appends the members
current_page_size ==
    IF result_length - offset < page_limit THEN result_length - offset ELSE page_limit

SliceIndices == PyRange(offset, offset + current_page_size)

SliceMembers ==
    /\ pc = "pre_processed"
    /\ IF \A k \in 1..Len(SliceIndices) : InRange(filtered_instances, SliceIndices[k])
       THEN /\ collection_template' =
                    [collection_template EXCEPT !["members"] =
                        [k \in 1..Len(SliceIndices) |->
                            ObjectTemplate(PyIndex(filtered_instances, SliceIndices[k]))]]
            /\ pc' = "sliced"
            /\ exc' = exc
       ELSE /\ exc' = RaisedAt(Raise("IndexError", <<>>), "get_collection")
            /\ pc' = "raised"
            /\ UNCHANGED collection_template
    /\ UNCHANGED <<args, page, page_limit, offset, last, graph_vars>>

\* if paginate is False: return collection_template
ReturnUnpaginated ==
    /\ pc = "sliced"
    /\ paginate = FALSE
    /\ pc' = "returned"
    /\ UNCHANGED <<args, exc, page, page_limit, offset, last, collection_template, graph_vars>>

\* The last page number; dividing by a page size of 0 is a ZeroDivisionError
LastPage(rl, size) ==
    IF rl # 0 /\ PyMod(rl, size) = 0 THEN PyFloorDiv(rl, size)
    ELSE PyFloorDiv(rl, size) + 1

\* hydra:totalItems, the last page and the page bound
CheckPageBound ==
    /\ pc = "sliced"
    /\ paginate = TRUE
    /\ collection_template' =
            collection_template @@ ("hydra:totalItems" :> result_length)
    /\ IF page_limit = 0
       THEN /\ exc' = RaisedAt(Raise("ZeroDivisionError", <<>>), "get_collection")
            /\ pc' = "raised"
            /\ last' = last
       ELSE /\ last' = LastPage(result_length, page_limit)
            /\ IF page < 1 \/ page > last'
               THEN /\ exc' = RaisedAt(Raise("PageNotFound", IntToStr(page)), "get_collection")
                    /\ pc' = "raised"
               ELSE /\ exc' = exc
                    /\ pc' = "bounded"
    /\ UNCHANGED <<args, page, page_limit, offset, graph_vars>>

\* The navigation parameter: offset, else pageIndex, else page
PaginateParam(sp) ==
    IF Has(sp, "offset") THEN "offset"
    ELSE IF Has(sp, "pageIndex") THEN "pageIndex"
    ELSE "page"

\* recreate_iri, attach_hydra_view and the return
AttachView ==
    /\ pc = "bounded"
    /\ collection_template' =
            collection_template @@
            ("hydra:view" :>
                attach_hydra_view(PaginateParam(search_params), result_length, page_limit,
                                  recreate_iri(API_NAME, path, search_params),
                                  offset, page, last))
    /\ pc' = "returned"
    /\ UNCHANGED <<args, exc, page, page_limit, offset, last, graph_vars>>

\* ------------------------------------------------- the triple store
\* Reference data: the classes and the properties of the API documentation.
RDFClass == {[id |-> 1, name |-> "Planet"], [id |-> 2, name |-> "Moon"]}

properties ==
    {[id |-> 1, name |-> "name"], [id |-> 2, name |-> "orbits"], [id |-> 3, name |-> "kind"]}

InstanceIds == {1, 2}

TerminalIds == {1, 2}

\* Python values of an object template: a str, an int or None
PyStr(v) == [kind |-> "str", val |-> v]

PyNum(n) == [kind |-> "int", val |-> n]

PyNone == [kind |-> "NoneType", val |-> ""]

\* The rows the tables can hold.  A Terminal's value may be NULL; the
\* object_ of an edge is an id, whether or not a row with that id exists.
InstanceRows == {[id |-> i, type_ |-> c.id] : i \in InstanceIds, c \in RDFClass}

TerminalRows == {[id |-> t, value |-> v] : t \in TerminalIds, v \in {PyStr("Mars"), PyNone}}

TripleRows ==
    {[kind |-> "GraphIIT", subject |-> i, predicate |-> 1, object_ |-> t] :
        i \in InstanceIds, t \in TerminalIds}
    \cup {[kind |-> "GraphIII", subject |-> i, predicate |-> 2, object_ |-> j] :
        i \in InstanceIds, j \in InstanceIds}
    \cup {[kind |-> "GraphIAC", subject |-> i, predicate |-> 3, object_ |-> c.id] :
        i \in InstanceIds, c \in RDFClass}

\* ids are primary keys
UniqueIds(rows) == \A r1, r2 \in rows : r1.id = r2.id => r1 = r2

RECURSIVE TriplesOfLen(_)
TriplesOfLen(n) ==
    IF n = 0 THEN {<<>>}
    ELSE UNION {{Append(t, r) : r \in TripleRows \ {t[k] : k \in 1..Len(t)}} :
                    t \in TriplesOfLen(n - 1)}

NoCall == [op |-> "none"]

InitGraph ==
    /\ Instance \in {rows \in SUBSET InstanceRows : UniqueIds(rows)}
    /\ Terminal \in {rows \in SUBSET TerminalRows : UniqueIds(rows)}
    /\ triples \in UNION {TriplesOfLen(n) : n \in 0..MaxTriples}
    /\ Modification = {}
    /\ graph_call = NoCall

\* query(...).one(): the row, NoResultFound for none, MultipleResultsFound
\* for several
One(rows) ==
    IF rows = {} THEN [exc |-> Raise("NoResultFound", <<>>)]
    ELSE IF Cardinality(rows) > 1 THEN [exc |-> Raise("MultipleResultsFound", <<>>)]
    ELSE [exc |-> NoExc, row |-> CHOOSE r \in rows : TRUE]

\* query(triples).filter(kind.subject == id_).all(), in the table's order
EdgesOf(kind, id_) ==
    LET Matches(r) == r.kind = kind /\ r.subject = id_
    IN  SelectSeq(triples, Matches)

get_data_iac_iii_iit(id_) ==
    <<EdgesOf("GraphIAC", id_), EdgesOf("GraphIII", id_), EdgesOf("GraphIIT", id_)>>

get_rdf_class(class_name) ==
    LET r == One({c \in RDFClass : c.name = class_name})
    IN  IF r.exc.kind = "NoResultFound"
        THEN [exc |-> Raise("ClassNotFound", <<class_name>>)]
        ELSE r

\* get_single_instance looking the entity up by its id alone
get_single_instance_ByIdOnly(id_, rdf_class) ==
    LET r == One({i \in Instance : i.id = id_})
    IN  IF r.exc.kind = "NoResultFound"
        THEN [exc |-> Raise("InstanceNotFound", <<rdf_class.name, id_>>)]
        ELSE r

get_single_instance(id_, rdf_class) ==
    LET r == One({i \in Instance : i.id = id_ /\ i.type_ = rdf_class.id})
    IN  IF r.exc.kind = "NoResultFound"
        THEN [exc |-> Raise("InstanceNotFound", <<rdf_class.name, id_>>)]
        ELSE r

\* One pass of one of the three loops of add_prop_name_to_object: the
\* template after the edge data, or the exception the pass ends with.
\* In the loop over the literal edges the assignment of terminal.value is
\* inside try ... except BaseException, which stores "" instead; one() has
\* returned a row by then (or has raised, outside the try), so reading the
\* row's value cannot raise and the except clause never runs.
AddEdge(template, data) ==
    LET prop == One({q \in properties : q.id = data.predicate})
        obj == IF data.kind = "GraphIAC" THEN One({c \in RDFClass : c.id = data.object_})
               ELSE IF data.kind = "GraphIII" THEN One({i \in Instance : i.id = data.object_})
               ELSE One({t \in Terminal : t.id = data.object_})
    IN  IF prop.exc.kind # "none" THEN [exc |-> prop.exc, template |-> template]
        ELSE IF obj.exc.kind # "none" THEN [exc |-> obj.exc, template |-> template]
        ELSE [exc |-> NoExc,
              template |->
                (prop.row.name :>
                    (IF data.kind = "GraphIAC" THEN PyStr(obj.row.name)
                     ELSE IF data.kind = "GraphIII" THEN PyNum(obj.row.id)
                     ELSE obj.row.value))
                @@ template]

\* The loops, over the edges in order; the first exception ends them
RECURSIVE AddEdges(_, _)
AddEdges(template, edges) ==
    IF edges = <<>> THEN [exc |-> NoExc, template |-> template]
    ELSE LET r == AddEdge(template, Head(edges))
         IN  IF r.exc.kind # "none" THEN r ELSE AddEdges(r.template, Tail(edges))

add_prop_name_to_object(id_, object_template, rdf_class) ==
    LET instance == get_single_instance(id_, rdf_class)
        data == get_data_iac_iii_iit(id_)
    IN  IF instance.exc.kind # "none"
        THEN [exc |-> instance.exc, template |-> object_template]
        ELSE AddEdges(object_template, data[1] \o data[2] \o data[3])

\* A call of add_prop_name_to_object on the stored graph, with the template
\* the caller starts from
Materialize ==
    /\ graph_call = NoCall
    /\ \E id_ \in InstanceIds, rdf_class \in RDFClass :
            LET r == add_prop_name_to_object(id_, "@type" :> PyStr(rdf_class.name), rdf_class)
            IN  graph_call' = [op |-> "add_prop_name_to_object", id_ |-> id_,
                               rdf_class |-> rdf_class, exc |-> r.exc,
                               object_template |-> r.template]
    /\ UNCHANGED <<Instance, Terminal, triples, Modification, pagination_vars>>

\* The type names a caller may ask for; no class is named Comet
ClassNames == {"Planet", "Moon", "Comet"}

\* A call of get_rdf_class
ResolveClass ==
    /\ graph_call = NoCall
    /\ \E class_name \in ClassNames :
            LET r == get_rdf_class(class_name)
            IN  graph_call' = [op |-> "get_rdf_class", type_ |-> class_name, exc |-> r.exc,
                               rdf_class |-> IF r.exc.kind = "none" THEN <<r.row>> ELSE None]
    /\ UNCHANGED <<Instance, Terminal, triples, Modification, pagination_vars>>

\* A nested mapping as the value of a filter key
PyDict(f) == [kind |-> "dict", val |-> f]

\* The filters of a search, keyed by property id in the order of the dict:
\* the literal of property 1 (or of property 3, which no entity has as a
\* literal), and the entity of property 2 with a filter of its own
ScalarClauses == {<<1, PyStr("Mars")>>, <<1, PyStr("Venus")>>, <<3, PyStr("Mars")>>}

FlatFilters == {<<>>} \cup {<<c>> : c \in ScalarClauses}

NestedClauses == {<<2, PyDict(f)>> : f \in FlatFilters}

SearchProps ==
    FlatFilters
    \cup {<<c>> : c \in NestedClauses}
    \cup {<<c, d>> : c \in ScalarClauses, d \in NestedClauses}
    \cup {<<d, c>> : c \in ScalarClauses, d \in NestedClauses}

\* query(triples).filter(kind.subject == object_id, kind.predicate == prop)
EdgeOf(kind, object_id, prop) ==
    {triples[k] : k \in {j \in 1..Len(triples) :
        /\ triples[j].kind = kind
        /\ triples[j].subject = object_id
        /\ triples[j].predicate = prop}}

\* apply_filter answering after the first scalar key that matches
RECURSIVE apply_filter_FirstScalarDecides(_, _)
apply_filter_FirstScalarDecides(object_id, search_props) ==
    IF search_props = <<>> THEN [exc |-> NoExc, result |-> TRUE]
    ELSE LET prop == Head(search_props)[1]
             value == Head(search_props)[2]
             rest == apply_filter_FirstScalarDecides(object_id, Tail(search_props))
         IN  IF value.kind = "dict"
             THEN LET data == One(EdgeOf("GraphIII", object_id, prop))
                      inner == apply_filter_FirstScalarDecides(data.row.object_, value.val)
                  IN  IF data.exc.kind # "none" THEN [exc |-> data.exc, result |-> FALSE]
                      ELSE IF inner.exc.kind # "none" THEN inner
                      ELSE IF inner.result = FALSE THEN inner
                      ELSE rest
             ELSE LET data == One(EdgeOf("GraphIIT", object_id, prop))
                      terminal == One({t \in Terminal : t.id = data.row.object_})
                  IN  IF data.exc.kind # "none" THEN [exc |-> data.exc, result |-> FALSE]
                      ELSE IF terminal.exc.kind # "none"
                      THEN [exc |-> terminal.exc, result |-> FALSE]
                      ELSE [exc |-> NoExc, result |-> terminal.row.value = value]

\* The loop over the filter keys, in order.  No one() of it is inside a
\* try: what a lookup raises ends the call.
RECURSIVE apply_filter(_, _)
apply_filter(object_id, search_props) ==
    IF search_props = <<>> THEN [exc |-> NoExc, result |-> TRUE]
    ELSE LET prop == Head(search_props)[1]
             value == Head(search_props)[2]
         IN  IF value.kind = "dict"
             THEN LET data == One(EdgeOf("GraphIII", object_id, prop))
                  IN  IF data.exc.kind # "none" THEN [exc |-> data.exc, result |-> FALSE]
                      ELSE LET inner == apply_filter(data.row.object_, value.val)
                           IN  IF inner.exc.kind # "none" THEN inner
                               ELSE IF inner.result = FALSE
                               THEN [exc |-> NoExc, result |-> FALSE]
                               ELSE apply_filter(object_id, Tail(search_props))
             ELSE LET data == One(EdgeOf("GraphIIT", object_id, prop))
                  IN  IF data.exc.kind # "none" THEN [exc |-> data.exc, result |-> FALSE]
                      ELSE LET terminal == One({t \in Terminal : t.id = data.row.object_})
                           IN  IF terminal.exc.kind # "none"
                               THEN [exc |-> terminal.exc, result |-> FALSE]
                               ELSE IF terminal.row.value # value
                               THEN [exc |-> NoExc, result |-> FALSE]
                               ELSE apply_filter(object_id, Tail(search_props))

\* A call of apply_filter on the stored graph
Filter ==
    /\ graph_call = NoCall
    /\ \E object_id \in InstanceIds, search_props \in SearchProps :
            LET r == apply_filter(object_id, search_props)
            IN  graph_call' = [op |-> "apply_filter", object_id |-> object_id,
                               search_props |-> search_props, exc |-> r.exc,
                               result |-> r.result]
    /\ UNCHANGED <<Instance, Terminal, triples, Modification, pagination_vars>>

\* ------------------------------------------------- the modification log
Methods == {"POST", "DELETE"}

ResourceUrls == {"/api/planets"}

\* A job id as Python holds it: None, a str (a sequence of characters) or
\* an int n (held as <<n>>)
JobNone == [kind |-> "NoneType", val |-> <<>>]

JobStr(s) == [kind |-> "str", val |-> s]

JobInt(n) == [kind |-> "int", val |-> <<n>>]

\* The job id the table gives a new record: above every id it has given
\* (some ids may stay unused)
NextJobIds ==
    LET used == {m.job_id : m \in Modification} \cup {0}
        top == CHOOSE j \in used : \A k \in used : k <= j
    IN  {top + 1, top + 2}

\* order_by(Modification.job_id.asc()).all()
RECURSIVE OrderByJobIdAsc(_)
OrderByJobIdAsc(rows) ==
    IF rows = {} THEN <<>>
    ELSE LET first == CHOOSE m \in rows : \A o \in rows : m.job_id <= o.job_id
         IN  <<first>> \o OrderByJobIdAsc(rows \ {first})

\* order_by(Modification.job_id.desc()).first(), and "" for an empty table
get_last_modification_job_id ==
    IF Modification = {} THEN JobStr(<<>>)
    ELSE JobInt((CHOOSE m \in Modification : \A o \in Modification : o.job_id <= m.job_id).job_id)

\* get_modification_table_diff returning the records from the agent's on
get_modification_table_diff_FromAgentJob(agent_job_id) ==
    IF agent_job_id.kind = "NoneType" THEN OrderByJobIdAsc(Modification)
    ELSE IF agent_job_id.kind # "int" THEN <<>>
    ELSE IF \A m \in Modification : m.job_id # agent_job_id.val[1] THEN <<>>
    ELSE OrderByJobIdAsc({m \in Modification : m.job_id >= agent_job_id.val[1]})

\* The list of the records (as dicts of job_id, method, resource_url)
get_modification_table_diff(agent_job_id) ==
    IF agent_job_id.kind = "NoneType" THEN OrderByJobIdAsc(Modification)
    ELSE LET record_for_agent_job_id ==
                One({m \in Modification :
                        agent_job_id.kind = "int" /\ m.job_id = agent_job_id.val[1]})
         IN  IF record_for_agent_job_id.exc.kind = "NoResultFound" THEN <<>>
             ELSE OrderByJobIdAsc({m \in Modification :
                                    m.job_id > record_for_agent_job_id.row.job_id})

\* The job ids an agent may send: none, the "" of an empty log, a number
AgentJobIds == {JobNone, JobStr(<<>>)} \cup {JobInt(n) : n \in 0..(2 * MaxRecords + 1)}

InsertModificationRecord ==
    /\ Cardinality(Modification) < MaxRecords
    /\ \E method \in Methods, resource_url \in ResourceUrls, job_id \in NextJobIds :
            /\ Modification' = Modification \cup
                    {[job_id |-> job_id, method |-> method, resource_url |-> resource_url]}
            /\ graph_call' = [op |-> "insert_modification_record", result |-> job_id]
    /\ UNCHANGED <<Instance, Terminal, triples, pagination_vars>>

GetLastModificationJobId ==
    /\ graph_call' = [op |-> "get_last_modification_job_id",
                      result |-> get_last_modification_job_id]
    /\ UNCHANGED <<Instance, Terminal, triples, Modification, pagination_vars>>

GetModificationTableDiff ==
    /\ \E agent_job_id \in AgentJobIds :
            graph_call' = [op |-> "get_modification_table_diff",
                           agent_job_id |-> agent_job_id,
                           result |-> get_modification_table_diff(agent_job_id)]
    /\ UNCHANGED <<Instance, Terminal, triples, Modification, pagination_vars>>

\* ------------------------------------------- classes with one instance
\* The ids the store gives to new entities
StoreIds == 1..(Cardinality(RDFClass) + 1)

FreeIds == StoreIds \ {i.id : i \in Instance}

\* The table of a class, by the name of the class
get_database_class(class_name) ==
    LET r == One({c \in RDFClass : c.name = class_name})
    IN  IF r.exc.kind = "NoResultFound"
        THEN [exc |-> Raise("ClassNotFound", <<class_name>>)]
        ELSE r

\* insert_object: the entity stored under the id the store gives it
insert_object(database_class, new_id) ==
    [exc |-> NoExc, result |-> Some(new_id),
     Instance |-> Instance \cup {[id |-> new_id, type_ |-> database_class.id]}]

\* get_single_response: an entity of the class
get_single_response(class_name) ==
    LET database_class == get_database_class(class_name)
    IN  IF database_class.exc.kind # "none" THEN {[exc |-> database_class.exc]}
        ELSE IF \A i \in Instance : i.type_ # database_class.row.id
        THEN {[exc |-> Raise("InstanceNotFound", <<class_name>>)]}
        ELSE {[exc |-> NoExc, row |-> i] : i \in {j \in Instance : j.type_ = database_class.row.id}}

\* delete_object: the entity and its edges removed
delete_object(id_) ==
    LET Kept(r) == r.subject # id_
    IN  [Instance |-> {i \in Instance : i.id # id_}, triples |-> SelectSeq(triples, Kept)]

\* insert_single without the look for an instance of the class
insert_single_AlwaysInserts(class_name, new_id) ==
    LET database_class == get_database_class(class_name)
    IN  IF database_class.exc.kind # "none"
        THEN [exc |-> database_class.exc, result |-> None, Instance |-> Instance]
        ELSE insert_object(database_class.row, new_id)

\* session.query(database_class).all()[-1] raises IndexError on an empty
\* table, and the handler inserts; with a row it raises InstanceExists
insert_single(class_name, new_id) ==
    LET database_class == get_database_class(class_name)
    IN  IF database_class.exc.kind # "none"
        THEN [exc |-> database_class.exc, result |-> None, Instance |-> Instance]
        ELSE IF {i \in Instance : i.type_ = database_class.row.id} = {}
        THEN insert_object(database_class.row, new_id)
        ELSE [exc |-> Raise("InstanceExists", <<class_name>>), result |-> None,
              Instance |-> Instance]

InsertSingle ==
    /\ \E class_name \in ClassNames, new_id \in FreeIds :
            LET r == insert_single(class_name, new_id)
            IN  /\ Instance' = r.Instance
                /\ graph_call' = [op |-> "insert_single", type_ |-> class_name,
                                  exc |-> r.exc, result |-> r.result]
    /\ UNCHANGED <<Terminal, triples, Modification, pagination_vars>>

DeleteSingle ==
    /\ \E class_name \in ClassNames :
        \E instance \in get_single_response(class_name) :
            /\ graph_call' = [op |-> "delete_single", type_ |-> class_name,
                              exc |-> instance.exc]
            /\ IF instance.exc.kind # "none"
               THEN UNCHANGED <<Instance, triples>>
               ELSE /\ Instance' = delete_object(instance.row.id).Instance
                    /\ triples' = delete_object(instance.row.id).triples
    /\ UNCHANGED <<Terminal, Modification, pagination_vars>>

\* ------------------------------------------------------ specifications
\* The graph while a collection is read, and the request while the graph
\* helpers are called
IdleGraph ==
    /\ Instance = {}
    /\ Terminal = {}
    /\ triples = <<>>
    /\ Modification = {}
    /\ graph_call = NoCall

IdlePagination ==
    /\ search_params = <<>>
    /\ paginate = FALSE
    /\ page_size = 1
    /\ filtered_instances = <<>>
    /\ pc = "idle"
    /\ exc = NoExc
    /\ page = 0
    /\ page_limit = 0
    /\ offset = 0
    /\ last = 0
    /\ collection_template = <<>>

\* get_collection on every request
Init == InitPagination /\ IdleGraph

Next ==
    \/ PreProcess
    \/ SliceMembers
    \/ ReturnUnpaginated
    \/ CheckPageBound
    \/ AttachView

Spec == Init /\ [][Next]_vars

\* The graph helpers on every stored graph
InitGraphSpec == InitGraph /\ IdlePagination

NextGraph ==
    \/ Materialize
    \/ ResolveClass

SpecGraph == InitGraphSpec /\ [][NextGraph]_vars

\* The filter of a search on every stored graph; apply_filter reads the
\* edges and the literals only, so every entity is stored under its class
FilterInstances == {[id |-> 1, type_ |-> 1], [id |-> 2, type_ |-> 2]}

InitFilterSpec ==
    /\ Instance = FilterInstances
    /\ Terminal \in {rows \in SUBSET TerminalRows : UniqueIds(rows)}
    /\ triples \in UNION {TriplesOfLen(n) : n \in 0..MaxTriples}
    /\ Modification = {}
    /\ graph_call = NoCall
    /\ IdlePagination

NextFilter == Filter

SpecFilter == InitFilterSpec /\ [][NextFilter]_vars

\* The singleton operations and the modification log, from an empty store
InitStore == IdleGraph /\ IdlePagination

NextStore ==
    \/ InsertModificationRecord
    \/ GetLastModificationJobId
    \/ GetModificationTableDiff
    \/ InsertSingle
    \/ DeleteSingle

SpecStore == InitStore /\ [][NextStore]_vars

\* ----------------------------------------------------------- the claims
\* What the request asks for, read off the raw parameters
StylesPresent == {k \in {"page", "pageIndex", "offset"} : Has(search_params, k)}

IsIntegerLiteral(v) == PyInt(v).ok

AllIntegers ==
    \A i \in 1..Len(search_params) :
        search_params[i][1] \in {"page", "pageIndex", "offset", "limit"}
            => IsIntegerLiteral(search_params[i][2])

LimitAbsentOrInteger ==
    Has(search_params, "limit") => IsIntegerLiteral(Get(search_params, "limit"))

\* a request by page or pageIndex (or by neither), with integer values
PageStyle == AllIntegers /\ StylesPresent \in {{}, {"page"}, {"pageIndex"}}

\* a request by offset, with integer values
OffsetStyle == AllIntegers /\ StylesPresent = {"offset"}

RequestedPage ==
    IF Has(search_params, "pageIndex") THEN PyInt(Get(search_params, "pageIndex")).val
    ELSE IF Has(search_params, "page") THEN PyInt(Get(search_params, "page")).val
    ELSE 1

RequestedOffset == PyInt(Get(search_params, "offset")).val

\* the page size in force: limit when supplied, else the configured one
RequestedSize ==
    IF Has(search_params, "limit") THEN PyInt(Get(search_params, "limit")).val
    ELSE page_size

Finished == pc \in {"returned", "raised"}

Returned == pc = "returned"

RaisedKind(k) == pc = "raised" /\ exc.kind = k

Members == collection_template["members"]

HasView == "hydra:view" \in DOMAIN collection_template

View == collection_template["hydra:view"]

C1_LastOfClaim ==
    IF result_length # 0 /\ result_length % page_size = 0
    THEN result_length \div page_size
    ELSE (result_length \div page_size) + 1

\* C1: with pagination enabled (page style, no limit: the configured page
\* size is in force), get_collection raises PageNotFound exactly when
\* page < 1 or page > last, last being result_length // page_size when
\* result_length is non-zero and divisible by page_size and
\* result_length // page_size + 1 otherwise; every page in 1..last succeeds.
C1_PageNotFoundExactlyOutsideBounds ==
    (Finished /\ paginate /\ PageStyle /\ ~Has(search_params, "limit")) =>
        /\ RaisedKind("PageNotFound")
                <=> (RequestedPage < 1 \/ RequestedPage > C1_LastOfClaim)
        /\ (RequestedPage >= 1 /\ RequestedPage <= C1_LastOfClaim) => Returned

C2_Offset == (RequestedPage - 1) * RequestedSize

C2_Count ==
    LET m == IF RequestedSize < result_length - C2_Offset THEN RequestedSize
             ELSE result_length - C2_Offset
    IN  IF m < 0 THEN 0 ELSE m

\* C2: a successful paginated page-style request returns as members exactly
\* the items at the indices offset .. offset + min(page_size, result_length -
\* offset) - 1 of the result set, in order, page_size being limit when
\* supplied and the configured size otherwise and offset being
\* (page - 1) * page_size; every index used lies in 0 .. result_length - 1.
C2_MembersAreTheSlice ==
    (Returned /\ paginate /\ PageStyle) =>
        /\ Len(Members) = C2_Count
        /\ \A k \in 1..Len(Members) :
                /\ 0 <= C2_Offset + k - 1
                /\ C2_Offset + k - 1 < result_length
                \* the item at index i (from 0) is filtered_instances[i + 1]
                /\ Members[k] = ObjectTemplate(filtered_instances[C2_Offset + k])

C2_Witness ==
    /\ Returned /\ paginate /\ PageStyle
    /\ Has(search_params, "limit")
    /\ RequestedPage = 2
    /\ Len(Members) = 1
    /\ result_length = 3

C3_RaisedPair(a, b) ==
    /\ pc = "raised"
    /\ exc.kind = "IncompatibleParameters"
    /\ exc.at = "pre_process_pagination_parameters"
    /\ exc.arg = <<a, b>>

\* C3: with two or more of page, pageIndex, offset present,
\* pre_process_pagination_parameters raises IncompatibleParameters naming
\* the first conflicting pair in the order (page, pageIndex), (page, offset),
\* (pageIndex, offset), whatever the values are; with at most one of the
\* keys present it never raises IncompatibleParameters.
C3_Exclusivity ==
    pc # "start" =>
        /\ {"page", "pageIndex"} \subseteq StylesPresent
                => C3_RaisedPair("page", "pageIndex")
        /\ StylesPresent = {"page", "offset"} => C3_RaisedPair("page", "offset")
        /\ StylesPresent = {"pageIndex", "offset"} => C3_RaisedPair("pageIndex", "offset")
        /\ Cardinality(StylesPresent) <= 1 => exc.kind # "IncompatibleParameters"

C3_Witness ==
    /\ Cardinality(StylesPresent) = 3
    /\ \A k \in StylesPresent : ~IsIntegerLiteral(Get(search_params, k))
    /\ C3_RaisedPair("page", "pageIndex")

\* C4: a non-integer value of page, pageIndex, offset or limit (no two of
\* the exclusive keys being present) makes pre_process_pagination_parameters
\* signal PageNotFound and nothing else, whichever key carries it.
C4_NonIntegerIsPageNotFound ==
    (pc # "start" /\ Cardinality(StylesPresent) <= 1 /\ ~AllIntegers) =>
        /\ pc = "raised"
        /\ exc.kind = "PageNotFound"
        /\ exc.at = "pre_process_pagination_parameters"

C5_RaisedOffsetOutOfRange ==
    /\ pc = "raised"
    /\ exc.kind = "OffsetOutOfRange"
    /\ exc.at = "pre_process_pagination_parameters"
    /\ exc.arg = IntToStr(RequestedOffset)

\* C5 as stated: for an offset parameter in 0 .. result_length (the only
\* style key, limit absent or an integer) pre_process_pagination_parameters
\* returns page = offset // page_size + 1 and the offset unchanged; for
\* offset > result_length it raises OffsetOutOfRange.
C5_OffsetUnchanged ==
    (pc # "start" /\ OffsetStyle) =>
        /\ (0 <= RequestedOffset /\ RequestedOffset <= result_length) =>
                /\ exc.at # "pre_process_pagination_parameters"
                /\ page = (RequestedOffset \div page_size) + 1
                /\ offset = RequestedOffset
        /\ RequestedOffset > result_length => C5_RaisedOffsetOutOfRange

\* C5 amended: for an offset parameter in 0 .. result_length (the only style
\* key, limit absent or an integer) pre_process_pagination_parameters returns
\* page = offset // page_size + 1, and the offset unchanged when pagination is
\* enabled but 0 when it is disabled; for offset > result_length it raises
\* OffsetOutOfRange, with pagination enabled or disabled.
C5_OffsetRoundTrip ==
    (pc # "start" /\ StylesPresent = {"offset"}
                  /\ IsIntegerLiteral(Get(search_params, "offset"))) =>
        /\ (0 <= RequestedOffset /\ RequestedOffset <= result_length
                /\ LimitAbsentOrInteger) =>
                /\ exc.at # "pre_process_pagination_parameters"
                /\ page = (RequestedOffset \div page_size) + 1
                /\ offset = IF paginate THEN RequestedOffset ELSE 0
        /\ RequestedOffset > result_length => C5_RaisedOffsetOutOfRange

C5_Witness ==
    /\ pc = "pre_processed"
    /\ OffsetStyle
    /\ paginate
    /\ page_size = 2
    /\ RequestedOffset = 2
    /\ page = 2
    /\ offset = 2

C6_Param == IF Has(search_params, "pageIndex") THEN "pageIndex" ELSE "page"

C6_Last ==
    IF result_length = 0 \/ RequestedSize <= 0 THEN 1
    ELSE ((result_length - 1) \div RequestedSize) + 1

\* C6: the view of a page or pageIndex request has first = {param}=1 and
\* last = {param}={last}; it omits hydra:previous when page = 1, omits
\* hydra:next when page = last, and for 1 < page < last has both, with the
\* values page - 1 and page + 1.
C6_PageStyleView ==
    (Returned /\ paginate /\ ~Has(search_params, "offset")) =>
        LET iri == recreate_iri(API_NAME, path, search_params)
        IN  /\ HasView
            /\ View["hydra:first"] = Link(iri, C6_Param, 1)
            /\ View["hydra:last"] = Link(iri, C6_Param, C6_Last)
            /\ RequestedPage = 1 => "hydra:previous" \notin DOMAIN View
            /\ RequestedPage = C6_Last => "hydra:next" \notin DOMAIN View
            /\ (1 < RequestedPage /\ RequestedPage < C6_Last) =>
                    /\ "hydra:previous" \in DOMAIN View
                    /\ "hydra:next" \in DOMAIN View
                    /\ View["hydra:previous"] = Link(iri, C6_Param, RequestedPage - 1)
                    /\ View["hydra:next"] = Link(iri, C6_Param, RequestedPage + 1)

C6_Witness ==
    /\ Returned /\ paginate
    /\ Has(search_params, "pageIndex")
    /\ RequestedPage = 2
    /\ C6_Last = 3
    /\ "hydra:previous" \in DOMAIN View
    /\ "hydra:next" \in DOMAIN View

\* C7: the view of an offset request has first = offset=0 and last =
\* offset=(result_length - page_size); hydra:previous is present iff
\* offset > page_size, with the value offset - page_size, and hydra:next iff
\* offset < result_length - page_size, with the value offset + page_size
\* (page_size being the size in force: limit when supplied).
C7_OffsetStyleView ==
    (Returned /\ paginate /\ Has(search_params, "offset")) =>
        LET iri == recreate_iri(API_NAME, path, search_params)
            size == RequestedSize
            off == RequestedOffset
        IN  /\ HasView
            /\ View["hydra:first"] = Link(iri, "offset", 0)
            /\ View["hydra:last"] = Link(iri, "offset", result_length - size)
            /\ "hydra:previous" \in DOMAIN View <=> off > size
            /\ "hydra:next" \in DOMAIN View <=> off < result_length - size
            /\ "hydra:previous" \in DOMAIN View
                    => View["hydra:previous"] = Link(iri, "offset", off - size)
            /\ "hydra:next" \in DOMAIN View
                    => View["hydra:next"] = Link(iri, "offset", off + size)

C7_Witness ==
    /\ Returned /\ paginate
    /\ Has(search_params, "offset")
    /\ RequestedOffset = 2
    /\ "hydra:previous" \in DOMAIN View
    /\ "hydra:next" \notin DOMAIN View

C8_IsKept(e) == e[1] \notin {"page", "pageIndex", "offset"}

RECURSIVE C8_Query(_)
C8_Query(kept) ==
    IF kept = <<>> THEN <<>>
    ELSE <<kept[1][1], "=">> \o kept[1][2] \o <<"&">> \o C8_Query(Tail(kept))

C8_ExpectedIri ==
    <<"/", API_NAME, "/", path, "?">> \o C8_Query(SelectSeq(search_params, C8_IsKept))

\* hydra:first is the base IRI followed by the parameter, = and one digit
C8_IriOfView == SubSeq(View["hydra:first"], 1, Len(View["hydra:first"]) - 3)

\* C8: the base IRI of the view links omits the keys page, pageIndex and
\* offset and keeps every other parameter (limit included) as key=value
\* followed by &, in the order of the caller's parameters.
C8_BaseIriKeepsOtherParams ==
    (Returned /\ HasView) =>
        /\ C8_IriOfView = C8_ExpectedIri
        /\ \A k \in DOMAIN View \ {"@type"} :
                /\ Len(View[k]) > Len(C8_ExpectedIri)
                /\ SubSeq(View[k], 1, Len(C8_ExpectedIri)) = C8_ExpectedIri

C8_Witness ==
    /\ Returned /\ HasView
    /\ Len(search_params) = 3
    /\ search_params[1][1] = "limit"
    /\ search_params[2][1] = "pageIndex"
    /\ search_params[3][1] = "name"

C9_ParametersAccepted ==
    /\ Cardinality(StylesPresent) <= 1
    /\ AllIntegers
    /\ Has(search_params, "offset") => RequestedOffset <= result_length

\* C9: with pagination disabled the derived offset is 0 and get_collection
\* returns all result_length entities in result-set order, whatever the
\* configured page_size, limit and the requested page are; it makes no
\* page-bound check and attaches neither hydra:view nor hydra:totalItems.
\* (The call ends in pre_process_pagination_parameters instead when the
\* parameters conflict, are no integers or the offset is out of range.)
C9_Unpaginated ==
    ~paginate =>
        /\ (pc # "start" /\ exc.at # "pre_process_pagination_parameters") => offset = 0
        /\ exc.at # "get_collection"
        /\ last = 0
        /\ DOMAIN collection_template = {"@id", "@context", "@type", "members"}
        /\ Finished =>
                IF C9_ParametersAccepted
                THEN /\ Returned
                     /\ Members = [k \in 1..result_length |->
                                        ObjectTemplate(filtered_instances[k])]
                ELSE /\ pc = "raised"
                     /\ exc.at = "pre_process_pagination_parameters"

C9_Witness ==
    /\ Returned /\ ~paginate
    /\ result_length = 3
    /\ page_size = 1
    /\ Has(search_params, "limit") /\ RequestedSize = 2
    /\ Has(search_params, "page") /\ RequestedPage = 2
    /\ Len(Members) = 3

C10_Materialized == graph_call.op = "add_prop_name_to_object"

C10_InstanceFound ==
    \E i \in Instance : i.id = graph_call.id_ /\ i.type_ = graph_call.rdf_class.id

C10_EntityEdgesResolve ==
    \A k \in 1..Len(triples) :
        (triples[k].kind = "GraphIII" /\ triples[k].subject = graph_call.id_)
            => \E i \in Instance : i.id = triples[k].object_

C10_Unresolved(edge) ==
    ~\E t \in Terminal : t.id = edge.object_ /\ t.value.kind = "str"

\* C10: when add_prop_name_to_object materialises an entity, a literal edge
\* whose literal cannot be resolved (no Terminal row for the edge's object
\* id, or a null value) yields the empty string for that property and the
\* call completes without raising; no other failure is masked: an entity
\* edge whose instance is missing still ends the call with an exception.
C10_MissingLiteralIsEmptyString ==
    (C10_Materialized /\ C10_InstanceFound) =>
        LET literals == EdgesOf("GraphIIT", graph_call.id_)
        IN  IF C10_EntityEdgesResolve
            THEN /\ graph_call.exc.kind = "none"
                 \* the last literal edge of the property decides its value
                 /\ (literals # <<>> /\ C10_Unresolved(literals[Len(literals)]))
                        => graph_call.object_template["name"] = PyStr("")
            ELSE graph_call.exc.kind # "none"
C11_Filtered == graph_call.op = "apply_filter"

\* an edge lookup of the call found no edge, or no literal for its edge, for
\* some key of the filter at the entity the key is applied to
RECURSIVE C11_LookupFails(_, _)
C11_LookupFails(object_id, search_props) ==
    \E k \in 1..Len(search_props) :
        LET prop == search_props[k][1]
            value == search_props[k][2]
        IN  IF value.kind = "dict"
            THEN \/ EdgeOf("GraphIII", object_id, prop) = {}
                 \/ \E e \in EdgeOf("GraphIII", object_id, prop) :
                        C11_LookupFails(e.object_, value.val)
            ELSE \/ EdgeOf("GraphIIT", object_id, prop) = {}
                 \/ \E e \in EdgeOf("GraphIIT", object_id, prop) :
                        \A t \in Terminal : t.id # e.object_

\* C11: a call of apply_filter never ends with an exception, and when an
\* edge or a literal a key of the filter needs is missing (at the entity or
\* at a nested one) the call returns False.
C11_FailureIsNoMatch ==
    C11_Filtered =>
        /\ graph_call.exc.kind = "none"
        /\ C11_LookupFails(graph_call.object_id, graph_call.search_props)
                => graph_call.result = FALSE

\* the clauses of a filter
C12_Clauses(f) == {f[k] : k \in 1..Len(f)}

\* the edges of an entity for a predicate, read off the table
C12_Edges(kind, entity, prop) ==
    {e \in C12_Clauses(triples) : e.kind = kind /\ e.subject = entity /\ e.predicate = prop}

\* every key of the filter succeeds at the entity: a scalar key when the
\* literal of the entity's one edge for the predicate is the filter value,
\* a nested key when the entity of the one edge matches the nested filter
RECURSIVE C12_EveryKeySucceeds(_, _)
C12_EveryKeySucceeds(entity, f) ==
    \A c \in C12_Clauses(f) :
        /\ Cardinality(C12_Edges(IF c[2].kind = "dict" THEN "GraphIII" ELSE "GraphIIT",
                                 entity, c[1])) = 1
        /\ IF c[2].kind = "dict"
           THEN \A e \in C12_Edges("GraphIII", entity, c[1]) :
                    C12_EveryKeySucceeds(e.object_, c[2].val)
           ELSE \A e \in C12_Edges("GraphIIT", entity, c[1]) :
                    \E t \in Terminal : t.id = e.object_ /\ t.value = c[2]

C12_ReturnedTrue == graph_call.exc.kind = "none" /\ graph_call.result = TRUE

\* C12: apply_filter returns True exactly when every key of the filter
\* succeeds at the entity (a scalar key: the entity's literal for the
\* predicate equals the value; a nested key: the referenced entity matches
\* the nested filter); when it returns True for a filter it returns True
\* for every filter made of some of its clauses, and it returns True for
\* the empty filter at every entity.
C12_ConjunctiveFilter ==
    C11_Filtered =>
        /\ C12_ReturnedTrue
                <=> C12_EveryKeySucceeds(graph_call.object_id, graph_call.search_props)
        /\ C12_ReturnedTrue =>
                \A f1 \in SearchProps :
                    C12_Clauses(f1) \subseteq C12_Clauses(graph_call.search_props)
                        => apply_filter(graph_call.object_id, f1)
                                = [exc |-> NoExc, result |-> TRUE]
        /\ graph_call.search_props = <<>> => C12_ReturnedTrue

\* a filter of a scalar and a nested key that matched
C12_Witness ==
    /\ C11_Filtered
    /\ Len(graph_call.search_props) = 2
    /\ C12_ReturnedTrue

C13_ClassResolved == graph_call.op = "get_rdf_class"

C13_EntityOfClass ==
    \E i \in Instance : i.id = graph_call.id_ /\ i.type_ = graph_call.rdf_class.id

C14_Diffed == graph_call.op = "get_modification_table_diff"

C14_JobIds == {m.job_id : m \in Modification}

C14_Ascending(records) ==
    \A a, b \in 1..Len(records) : a < b => records[a].job_id < records[b].job_id

C14_Recorded ==
    /\ graph_call.agent_job_id.kind = "int"
    /\ graph_call.agent_job_id.val[1] \in C14_JobIds

C15_InstancesOf(class_name) ==
    {i \in Instance : \E c \in RDFClass : c.name = class_name /\ i.type_ = c.id}

C15_AtMostOne == \A c \in RDFClass : Cardinality(C15_InstancesOf(c.name)) <= 1

\* a call of insert_single for a class of the schema: it stores the object
\* under a new id when the class had no instance, and raises InstanceExists
\* and stores nothing when it had one
C15_InsertStep ==
    (graph_call'.op = "insert_single" /\ (\E c \in RDFClass : c.name = graph_call'.type_)) =>
        IF C15_InstancesOf(graph_call'.type_) = {}
        THEN /\ graph_call'.exc.kind = "none"
             /\ Cardinality(Instance') = Cardinality(Instance) + 1
             /\ Instance \subseteq Instance'
             /\ \A i \in Instance' \ Instance :
                    /\ i.id = graph_call'.result[1]
                    /\ \E c \in RDFClass : c.name = graph_call'.type_ /\ i.type_ = c.id
        ELSE /\ graph_call'.exc.kind = "InstanceExists"
             /\ Instance' = Instance

C16_OffsetInRangeIsNoPageNotFound ==
    (Finished /\ paginate /\ OffsetStyle /\ RequestedSize > 0
        /\ RequestedOffset \in 0..result_length)
            => ~RaisedKind("PageNotFound")

C17_NavigationKeys == {"hydra:first", "hydra:last", "hydra:previous", "hydra:next"}

\* the link designates one of the positions
C17_LinkInto(link, positions) ==
    \E n \in positions :
        link = Link(recreate_iri(API_NAME, path, search_params), PaginateParam(search_params), n)

\* C17: in every view get_collection attaches, every navigation link
\* (first, last, previous, next) designates a position of the collection:
\* an offset in 0 .. result_length for a request by offset, a page in
\* 1 .. last for a request by page or pageIndex.
C17_LinksStayInside ==
    (Returned /\ HasView) =>
        \A k \in C17_NavigationKeys \cap DOMAIN View :
            C17_LinkInto(View[k],
                         IF PaginateParam(search_params) = "offset"
                         THEN 0..result_length ELSE 1..last)

C18_ExpectedFailures == {"IncompatibleParameters", "PageNotFound", "OffsetOutOfRange"}

\* C18: a paginated get_collection call with an integer limit (zero and
\* negative ones included, the other pagination values integers too) returns
\* a collection or ends with IncompatibleParameters, PageNotFound or
\* OffsetOutOfRange, never with another exception, and the members it
\* returns are items of the slice offset .. offset + limit - 1.
C18_AnyLimitIsHandled ==
    (Finished /\ paginate /\ AllIntegers /\ Has(search_params, "limit")) =>
        /\ Returned \/ exc.kind \in C18_ExpectedFailures
        /\ Returned =>
                \A k \in 1..Len(Members) :
                    \E i \in offset..(offset + RequestedSize - 1) :
                        /\ 0 <= i /\ i < result_length
                        /\ Members[k] = ObjectTemplate(filtered_instances[i + 1])

====
